---- MODULE Spec2Model ----
(***************************************************************************)
(* Admin authentication of yhalltech/client.                               *)
(*                                                                         *)
(*   src/assets/js/server.js   the GraphQL resolvers adminLogin,           *)
(*                             adminValidateSession, getAdminByUsername    *)
(*   src/partials/server.js    the Apollo server's request context         *)
(*                                                                         *)
(* A resolver is an async function: every `await` is a point where other   *)
(* requests, other writers of the database and the clock may act.  Each    *)
(* action below is the code that runs from one await to the next.          *)
(*                                                                         *)
(* A JavaScript null is the empty sequence Null; a non-null value v of a   *)
(* nullable place is the one-element sequence <<v>>.                       *)
(***************************************************************************)
EXTENDS Integers, Sequences, FiniteSets, Bags, TLC

\* ------------------------------------------------------------------ bounds
NumAdmins == 2      \* rows the admins table starts with; ids 1..NumAdmins
NumCalls == 1       \* resolver calls in flight at once
MaxRequests == 2    \* requests the server receives in a run
MaxSessions == 2    \* rows the admin_sessions table can hold
SubSecondMs == 500  \* the clock's small step, less than a second
MaxClockMs == 57600000  \* the clock stops advancing here (16 h)
MaxBodyLen == 9     \* digits a user types after the leading digit, at most

\* ------------------------------------------------------- program constants
MsPerSecond == 1000
EXPIRES_IN_SECONDS == 8 * 60 * 60
EXPIRES_AT_OFFSET_MS == 8 * 60 * 60 * 1000
JWT_SECRET == "JWT_SECRET"
OTHER_SECRET == "not-the-server-secret"

Null == << >>
Some(v) == << v >>

AdminIds == 1 .. NumAdmins
Calls == 1 .. NumCalls
\* The username of admin a is a; NumAdmins + 1 is a username of no row.
Usernames == 1 .. (NumAdmins + 1)
\* Two passwords are in use: the admins of odd id have one, those of even
\* id the other; a client types either.
PasswordOf(a) == IF a % 2 = 1 THEN "odd-password" ELSE "even-password"
Passwords == { PasswordOf(a) : a \in AdminIds }

VARIABLES
  admins,         \* table admins: id -> Null (no such row) or Some(row)
  activity_logs,  \* table activity_logs: a bag of rows
  clock,          \* Date.now() / NOW(), in milliseconds
  pc,             \* per call: the await it is suspended at
  op,             \* per call: the resolver it runs
  args,           \* per call: the resolver's arguments
  admin,          \* per call: `const admin = admins[0]`
  decoded,        \* per call: `const decoded = jwt.verify(...)`
  token,          \* per call: `const token = jwt.sign(...)`
  queries,        \* per call: the SQL statements it has issued, in order
  resp,           \* per call: Null, or Some(the value the resolver returned)
  threw,          \* per call: whether its catch block has run
  requests,       \* the number of requests received so far
  issued,         \* the bag of session tokens that responses have carried
  effects,        \* per call: the tables its statements have changed so far
  admin_sessions, \* table admin_sessions: a set of rows
  authorization,  \* context: req.headers.authorization
  cpc,            \* context: the await the call is suspended at
  adminId,        \* context: `let adminId`
  roleId,         \* context: `let roleId`
  ctx,            \* context: Null, or Some(the context object returned)
  cthrew,         \* context: whether its catch block has run
  phone_number,   \* payment form: the value of the field #phone_number
  entered,        \* payment form: what the field held when `input` last fired
  border_red,     \* payment form: the field has the class border-red-500
  hint_hidden     \* payment form: the field's next sibling has the class hidden

ctxVars == << admin_sessions, authorization, cpc, adminId, roleId, ctx, cthrew >>

formVars == << phone_number, entered, border_red, hint_hidden >>

callVars == << pc, op, args, admin, decoded, token, queries, resp, threw,
               requests, issued, effects >>

vars == << admins, activity_logs, clock, callVars, ctxVars, formVars >>

\* ------------------------------------------------------------- the libraries
\* bcrypt: the stored hash of a password, and bcrypt.compare.
Hash(password) == << "bcrypt", password >>

\* A comparison that accepts every password.
bcrypt_compare_any(password, password_hash) == TRUE

bcrypt_compare(password, password_hash) == Hash(password) = password_hash

\* id.toString()
toString(n) == << "str", n >>

\* new Date(ms).toISOString(): an instant with millisecond precision.
ToISOString(ms) == << "iso", ms >>

\* Math.floor(Date.now() / 1000), the clock jsonwebtoken reads.
ClockTimestamp(nowMs) == nowMs \div MsPerSecond

\* A string that is no JWT at all.
MalformedToken ==
  [wellFormed |-> FALSE, adminId |-> 0, username |-> 0, roleId |-> Null,
   iat |-> 0, exp |-> 0, sig |-> OTHER_SECRET]

\* A signing whose expiresIn is read as 8 minutes.
jwt_sign_8m(payload, secret, nowMs) ==
  [wellFormed |-> TRUE,
   adminId |-> payload.adminId,
   username |-> payload.username,
   roleId |-> payload.roleId,
   iat |-> nowMs \div MsPerSecond,
   exp |-> (nowMs \div MsPerSecond) + 8 * 60,
   sig |-> secret]

\* jwt.sign(payload, secret, {expiresIn: '8h'}): iat is the clock in whole
\* seconds, exp is iat + 8 h, and the signature is made with the secret.
jwt_sign(payload, secret, nowMs) ==
  [wellFormed |-> TRUE,
   adminId |-> payload.adminId,
   username |-> payload.username,
   roleId |-> payload.roleId,
   iat |-> ClockTimestamp(nowMs),
   exp |-> ClockTimestamp(nowMs) + EXPIRES_IN_SECONDS,
   sig |-> secret]

\* A verification that still accepts a token at the second it expires.
jwt_verify_ok_late(tok, secret, nowMs) ==
  /\ tok.wellFormed
  /\ tok.sig = secret
  /\ ~ (nowMs \div MsPerSecond > tok.exp)

\* jwt.verify(token, secret) throws unless the token parses, its signature
\* was made with the secret and the clock is before exp.
jwt_verify_ok(tok, secret, nowMs) ==
  /\ tok.wellFormed
  /\ tok.sig = secret
  /\ ~ (ClockTimestamp(nowMs) >= tok.exp)

\* --------------------------------------------------------------- the tables
InitialRow(a, active, twoFactor) ==
  [id |-> a,
   username |-> a,
   password_hash |-> Hash(PasswordOf(a)),
   is_active |-> active,
   two_factor_enabled |-> twoFactor,
   role_id |-> IF a % 2 = 1 THEN Some(a) ELSE Null,
   security_question |-> << "question", a >>,
   last_login |-> Null]

\* The columns of a selected row that the resolvers read.
Columns(row) ==
  [id |-> row.id, username |-> row.username, password_hash |-> row.password_hash,
   is_active |-> row.is_active, two_factor_enabled |-> row.two_factor_enabled,
   role_id |-> row.role_id]

\* The same SELECT without its WHERE clause.
SelectByUsername_no_where(username) ==
  LET hit == { a \in AdminIds : admins[a] # Null }
  IN IF hit = {} THEN << >> ELSE << admins[CHOOSE a \in hit : TRUE][1] >>

\* SELECT ... FROM admins a ... WHERE a.username = ${username} LIMIT 1
SelectByUsername(username) ==
  LET hit == { a \in AdminIds : admins[a] # Null /\ admins[a][1].username = username }
  IN IF hit = {} THEN << >> ELSE << admins[CHOOSE a \in hit : TRUE][1] >>

\* SELECT ... FROM admins a ... WHERE a.id = ${id} AND a.is_active = true LIMIT 1
SelectActiveById(id) ==
  IF id \in AdminIds /\ admins[id] # Null /\ admins[id][1].is_active
  THEN << admins[id][1] >> ELSE << >>

\* UPDATE admins SET last_login = NOW() WHERE id = ${id}
UpdateLastLogin(id) ==
  IF id \in AdminIds /\ admins[id] # Null
  THEN [admins EXCEPT ![id] = Some([@[1] EXCEPT !.last_login = Some(clock)])]
  ELSE admins

\* INSERT INTO activity_logs (admin_id, action_type, resource_type, details)
\* VALUES (${id}, 'LOGIN', 'ADMIN', 'Admin logged in successfully')
LoginLogRow(id) ==
  [admin_id |-> id, action_type |-> "LOGIN", resource_type |-> "ADMIN",
   details |-> "Admin logged in successfully"]

\* An INSERT that is never sent.
InsertLoginLog_none(id) == activity_logs

InsertLoginLog(id) == activity_logs (+) SetToBag({LoginLogRow(id)})

\* ------------------------------------------------------------- the responses
NoArgs == [username |-> 0, password |-> "", sessionToken |-> MalformedToken]

InvalidCredentials ==
  [success |-> FALSE, message |-> "Invalid username or password",
   admin |-> Null, session |-> Null, requires2FA |-> FALSE]

\* A wrong-password answer that names the password as the fault.
InvalidPassword_named ==
  [success |-> FALSE, message |-> "Invalid password",
   admin |-> Null, session |-> Null, requires2FA |-> FALSE]

\* The answer to a wrong password, as written after bcrypt.compare.
InvalidPassword ==
  [success |-> FALSE, message |-> "Invalid username or password",
   admin |-> Null, session |-> Null, requires2FA |-> FALSE]

AccountInactive ==
  [success |-> FALSE, message |-> "Account is inactive. Contact administrator.",
   admin |-> Null, session |-> Null, requires2FA |-> FALSE]

LoginError ==
  [success |-> FALSE, message |-> "An error occurred during login",
   admin |-> Null, session |-> Null, requires2FA |-> FALSE]

TwoFactorRequired(row) ==
  [success |-> TRUE, message |-> "2FA code required",
   admin |-> Some([id |-> toString(row.id), username |-> row.username,
                   isActive |-> row.is_active, role |-> Null]),
   session |-> Null, requires2FA |-> TRUE]

LoginSuccessful(row, tok, nowMs) ==
  [success |-> TRUE, message |-> "Login successful",
   admin |-> Some([id |-> toString(row.id), username |-> row.username,
                   isActive |-> row.is_active,
                   role |-> IF row.role_id = Null THEN Null
                            ELSE Some(toString(row.role_id[1]))]),
   session |-> Some([token |-> tok,
                     expiresAt |-> ToISOString(nowMs + EXPIRES_AT_OFFSET_MS)]),
   requires2FA |-> FALSE]

\* What getAdminByUsername returns: `null`, or `{ securityQuestion }`.
NoAdmin == [value |-> Null]

AdminFound(row) == [value |-> Some([securityQuestion |-> row.security_question])]

SessionInvalid == [isValid |-> FALSE, admin |-> Null, expiresAt |-> Null]

SessionValid(row, dec) ==
  [isValid |-> TRUE,
   expiresAt |-> Some(ToISOString(dec.exp * MsPerSecond)),
   admin |-> Some([id |-> toString(row.id), username |-> row.username,
                   isActive |-> row.is_active,
                   role |-> IF row.role_id = Null THEN Null
                            ELSE Some(toString(row.role_id[1]))])]

\* ------------------------------------------------------------------- Init
\* Every account starts active; the accounts of even id have two-factor on.
Init ==
  /\ admins = [a \in AdminIds |-> Some(InitialRow(a, TRUE, a % 2 = 0))]
  /\ activity_logs = EmptyBag
  /\ clock = 0
  /\ pc = [p \in Calls |-> "idle"]
  /\ op = [p \in Calls |-> "none"]
  /\ args = [p \in Calls |-> NoArgs]
  /\ admin = [p \in Calls |-> Null]
  /\ decoded = [p \in Calls |-> Null]
  /\ token = [p \in Calls |-> Null]
  /\ queries = [p \in Calls |-> << >>]
  /\ resp = [p \in Calls |-> Null]
  /\ threw = [p \in Calls |-> FALSE]
  /\ requests = 0
  /\ issued = EmptyBag
  /\ effects = [p \in Calls |-> {}]
  /\ admin_sessions = {}
  /\ authorization = Null
  /\ cpc = "idle"
  /\ adminId = Null
  /\ roleId = Null
  /\ ctx = Null
  /\ cthrew = FALSE
  /\ phone_number = << >>
  /\ entered = << >>
  /\ border_red = FALSE
  /\ hint_hidden = TRUE

\* `return r` of call p: the handler sends r to the client.
Return(p, r) ==
  /\ pc' = [pc EXCEPT ![p] = "done"]
  /\ resp' = [resp EXCEPT ![p] = Some(r)]

\* A throw that no catch block turns into a response.
Catch_escape(p, r) ==
  /\ threw' = [threw EXCEPT ![p] = TRUE]
  /\ pc' = [pc EXCEPT ![p] = "done"]
  /\ resp' = [resp EXCEPT ![p] = Null]

\* An operation of call p throws inside `try`: `catch (error) { return r }`.
Catch(p, r) ==
  /\ threw' = [threw EXCEPT ![p] = TRUE]
  /\ Return(p, r)

\* Call p suspends at the await `at`.
Suspend(p, at) ==
  /\ pc' = [pc EXCEPT ![p] = at]
  /\ UNCHANGED << resp, threw >>

\* Call p sends `statement` to the database.
Issue(p, statement) == queries' = [queries EXCEPT ![p] = Append(@, statement)]

\* A request arrives and the handler calls the resolver `resolver` with the
\* arguments a, in a call of its own.
Receive(p, resolver, a) ==
  /\ pc[p] \in {"idle", "done"}
  /\ requests < MaxRequests
  /\ requests' = requests + 1
  /\ op' = [op EXCEPT ![p] = resolver]
  /\ args' = [args EXCEPT ![p] = a]
  /\ admin' = [admin EXCEPT ![p] = Null]
  /\ token' = [token EXCEPT ![p] = Null]
  /\ effects' = [effects EXCEPT ![p] = {}]

\* ------------------------------------------------------------- adminLogin
\* A check of the active flag that never rejects.
IsInactive_never(row) == FALSE

\* `if (!admin.is_active)`
IsInactive(row) == ~ row.is_active

\* A two-factor check that never asks for the second factor.
Requires2FA_never(row) == FALSE

\* `if (admin.two_factor_enabled)`
Requires2FA(row) == row.two_factor_enabled

\* The resolver is entered and suspends at `await sql` of the SELECT.
LoginCall(p, username, password) ==
  /\ Receive(p, "adminLogin", [NoArgs EXCEPT !.username = username,
                                             !.password = password])
  /\ queries' = [queries EXCEPT ![p] = << "SELECT" >>]
  /\ decoded' = [decoded EXCEPT ![p] = Null]
  /\ pc' = [pc EXCEPT ![p] = "select"]
  /\ resp' = [resp EXCEPT ![p] = Null]
  /\ threw' = [threw EXCEPT ![p] = FALSE]
  /\ UNCHANGED << admins, activity_logs, clock, issued, ctxVars, formVars >>

\* The SELECT settles: unknown username, then the active flag, then the call
\* suspends at `await bcrypt.compare`.
LoginSelect(p, ok) ==
  /\ pc[p] = "select" /\ op[p] = "adminLogin"
  /\ LET rows == SelectByUsername(args[p].username) IN
       IF ~ ok THEN Catch(p, LoginError) /\ UNCHANGED admin
       ELSE IF Len(rows) = 0
         THEN Return(p, InvalidCredentials) /\ UNCHANGED << admin, threw >>
       ELSE /\ admin' = [admin EXCEPT ![p] = Some(Columns(rows[1]))]
            /\ IF IsInactive(rows[1])
               THEN Return(p, AccountInactive) /\ UNCHANGED threw
               ELSE Suspend(p, "compare")
  /\ UNCHANGED << admins, activity_logs, clock, op, args, decoded, token,
                  queries, requests, issued, effects, ctxVars, formVars >>

\* The same continuation with the two-factor branch ahead of the password
\* check.
LoginCompare_2fa_first(p, ok) ==
  /\ pc[p] = "compare" /\ op[p] = "adminLogin"
  /\ LET row == admin[p][1]
         isValidPassword == bcrypt_compare(args[p].password, row.password_hash)
     IN
       IF ~ ok THEN Catch(p, LoginError) /\ UNCHANGED << token, queries >>
       ELSE IF Requires2FA(row)
         THEN Return(p, TwoFactorRequired(row)) /\ UNCHANGED << token, queries, threw >>
       ELSE IF ~ isValidPassword
         THEN Return(p, InvalidPassword) /\ UNCHANGED << token, queries, threw >>
       ELSE /\ token' = [token EXCEPT ![p] =
                  Some(jwt_sign([adminId |-> row.id, username |-> row.username,
                                 roleId |-> row.role_id], JWT_SECRET, clock))]
            /\ Issue(p, "UPDATE")
            /\ Suspend(p, "update")
  /\ UNCHANGED << admins, activity_logs, clock, op, args, admin, decoded,
                  requests, issued, effects, ctxVars, formVars >>

\* bcrypt.compare settles: wrong password, then the two-factor branch, then
\* jwt.sign and the call suspends at `await sql` of the UPDATE.
LoginCompare(p, ok) ==
  /\ pc[p] = "compare" /\ op[p] = "adminLogin"
  /\ LET row == admin[p][1]
         isValidPassword == bcrypt_compare(args[p].password, row.password_hash)
     IN
       IF ~ ok THEN Catch(p, LoginError) /\ UNCHANGED << token, queries >>
       ELSE IF ~ isValidPassword
         THEN Return(p, InvalidPassword) /\ UNCHANGED << token, queries, threw >>
       ELSE IF Requires2FA(row)
         THEN Return(p, TwoFactorRequired(row)) /\ UNCHANGED << token, queries, threw >>
       ELSE /\ token' = [token EXCEPT ![p] =
                  Some(jwt_sign([adminId |-> row.id, username |-> row.username,
                                 roleId |-> row.role_id], JWT_SECRET, clock))]
            /\ Issue(p, "UPDATE")
            /\ Suspend(p, "update")
  /\ UNCHANGED << admins, activity_logs, clock, op, args, admin, decoded,
                  requests, issued, effects, ctxVars, formVars >>

\* The UPDATE settles and the call suspends at `await sql` of the INSERT.
LoginUpdate(p, ok) ==
  /\ pc[p] = "update" /\ op[p] = "adminLogin"
  /\ IF ~ ok
     THEN Catch(p, LoginError) /\ UNCHANGED << admins, queries, effects >>
     ELSE /\ admins' = UpdateLastLogin(admin[p][1].id)
          /\ effects' = [effects EXCEPT ![p] =
                IF admins' # admins THEN @ \cup {"admins"} ELSE @]
          /\ Issue(p, "INSERT")
          /\ Suspend(p, "insert")
  /\ UNCHANGED << activity_logs, clock, op, args, admin, decoded, token,
                  requests, issued, ctxVars, formVars >>

\* The INSERT settles and the resolver returns the session; the client then
\* holds the token.
LoginInsert(p, ok) ==
  /\ pc[p] = "insert" /\ op[p] = "adminLogin"
  /\ IF ~ ok
     THEN Catch(p, LoginError) /\ UNCHANGED << activity_logs, issued, effects >>
     ELSE /\ activity_logs' = InsertLoginLog(admin[p][1].id)
          /\ effects' = [effects EXCEPT ![p] =
                IF activity_logs' # activity_logs
                THEN @ \cup {"activity_logs"} ELSE @]
          /\ Return(p, LoginSuccessful(admin[p][1], token[p][1], clock))
          /\ issued' = issued (+) SetToBag({token[p][1]})
          /\ UNCHANGED threw
  /\ UNCHANGED << admins, clock, op, args, admin, decoded, token, queries,
                  requests, ctxVars, formVars >>

\* --------------------------------------------------- adminValidateSession
\* The tokens a client can present: those a login has returned, a token
\* naming admin 1 that is signed with another secret, and a string that is
\* no JWT.
ReturnedTokens == BagToSet(issued)

ForgedTokens ==
  { jwt_sign([adminId |-> 1, username |-> 1, roleId |-> Null], OTHER_SECRET, 0) }

PresentableTokens == ReturnedTokens \cup ForgedTokens \cup { MalformedToken }

\* The resolver is entered: jwt.verify runs at once; if it does not throw
\* the call suspends at `await sql` of the SELECT.
ValidateCall(p, sessionToken) ==
  /\ Receive(p, "adminValidateSession", [NoArgs EXCEPT !.sessionToken = sessionToken])
  /\ IF jwt_verify_ok(sessionToken, JWT_SECRET, clock)
     THEN /\ decoded' = [decoded EXCEPT ![p] = Some(sessionToken)]
          /\ queries' = [queries EXCEPT ![p] = << "SELECT" >>]
          /\ pc' = [pc EXCEPT ![p] = "select"]
          /\ resp' = [resp EXCEPT ![p] = Null]
          /\ threw' = [threw EXCEPT ![p] = FALSE]
     ELSE /\ decoded' = [decoded EXCEPT ![p] = Null]
          /\ queries' = [queries EXCEPT ![p] = << >>]
          /\ Catch(p, SessionInvalid)
  /\ UNCHANGED << admins, activity_logs, clock, issued, ctxVars, formVars >>

\* The SELECT settles and the resolver returns.
ValidateSelect(p, ok) ==
  /\ pc[p] = "select" /\ op[p] = "adminValidateSession"
  /\ LET rows == SelectActiveById(decoded[p][1].adminId) IN
       IF ~ ok THEN Catch(p, SessionInvalid)
       ELSE IF Len(rows) = 0 THEN Return(p, SessionInvalid) /\ UNCHANGED threw
       ELSE Return(p, SessionValid(rows[1], decoded[p][1])) /\ UNCHANGED threw
  /\ UNCHANGED << admins, activity_logs, clock, op, args, admin, decoded, token,
                  queries, requests, issued, effects, ctxVars, formVars >>

\* ----------------------------------------------------- getAdminByUsername
\* The resolver is entered and suspends at `await sql` of the SELECT.
GetAdminCall(p, username) ==
  /\ Receive(p, "getAdminByUsername", [NoArgs EXCEPT !.username = username])
  /\ queries' = [queries EXCEPT ![p] = << "SELECT" >>]
  /\ decoded' = [decoded EXCEPT ![p] = Null]
  /\ pc' = [pc EXCEPT ![p] = "select"]
  /\ resp' = [resp EXCEPT ![p] = Null]
  /\ threw' = [threw EXCEPT ![p] = FALSE]
  /\ UNCHANGED << admins, activity_logs, clock, issued, ctxVars, formVars >>

\* The SELECT settles and the resolver returns.
GetAdminSelect(p, ok) ==
  /\ pc[p] = "select" /\ op[p] = "getAdminByUsername"
  /\ LET rows == SelectByUsername(args[p].username) IN
       IF ~ ok THEN Catch(p, NoAdmin)
       ELSE IF Len(rows) = 0 THEN Return(p, NoAdmin) /\ UNCHANGED threw
       ELSE Return(p, AdminFound(rows[1])) /\ UNCHANGED threw
  /\ UNCHANGED << admins, activity_logs, clock, op, args, admin, decoded, token,
                  queries, requests, issued, effects, ctxVars, formVars >>

\* ------------------------------------------------- the request context
\* The Authorization header: a scheme prefix and what follows it (Null when
\* nothing follows).
BearerHeader(tok) == [prefix |-> "Bearer ", rest |-> Some(tok)]
BareHeader(tok) == [prefix |-> "", rest |-> Some(tok)]
EmptyBearerHeader == [prefix |-> "Bearer ", rest |-> Null]

\* req.headers.authorization?.replace('Bearer ', '') || null
HeaderToken(header) == IF header = Null THEN Null ELSE header[1].rest

\* The same SELECT without `AND is_valid = true`.
SelectSession_any_validity(tok) ==
  { s \in admin_sessions : s.session_token = tok /\ s.expires_at > clock }

\* SELECT session_id FROM admin_sessions WHERE session_token = ${token}
\*   AND is_valid = true AND expires_at > CURRENT_TIMESTAMP LIMIT 1
SelectSession(tok) ==
  { s \in admin_sessions :
      s.session_token = tok /\ s.is_valid /\ s.expires_at > clock }

\* `return { adminId, roleId, ... }`
ContextReturn(a, r) ==
  /\ cpc' = "done"
  /\ adminId' = a
  /\ roleId' = r
  /\ ctx' = Some([adminId |-> a, roleId |-> r])

\* The context function is entered with the request's header: no token, or
\* jwt.verify throws, or adminId and roleId are set from the token and the
\* call suspends at `await sql`.
ContextCall(header) ==
  /\ cpc \in {"idle", "done"}
  /\ authorization' = header
  /\ LET tok == HeaderToken(header) IN
       IF tok = Null
       THEN ContextReturn(Null, Null) /\ cthrew' = FALSE
       ELSE IF ~ jwt_verify_ok(tok[1], JWT_SECRET, clock)
       THEN ContextReturn(Null, Null) /\ cthrew' = TRUE
       ELSE /\ adminId' = Some(tok[1].adminId)
            /\ roleId' = tok[1].roleId
            /\ cpc' = "select"
            /\ ctx' = Null
            /\ cthrew' = FALSE
  /\ UNCHANGED << admins, activity_logs, clock, callVars, admin_sessions,
                  formVars >>

\* The SELECT on admin_sessions settles and the context is returned.
ContextSelect(ok) ==
  /\ cpc = "select"
  /\ LET session == SelectSession(HeaderToken(authorization)[1]) IN
       IF ~ ok THEN ContextReturn(Null, Null) /\ cthrew' = TRUE
       ELSE IF session = {} THEN ContextReturn(Null, Null) /\ UNCHANGED cthrew
       ELSE ContextReturn(adminId, roleId) /\ UNCHANGED cthrew
  /\ UNCHANGED << admins, activity_logs, clock, callVars, admin_sessions,
                  authorization, formVars >>

\* ------------------------------------------------------- the payment form
\* Strings are sequences of one-character strings.
Digits == {"0", "1", "2", "3", "4", "5", "6", "7", "8", "9"}

Whitespace == {" ", "\t"}

\* \d
IsDigit(c) == c \in Digits

\* \S
NotWhitespace(c) == c \notin Whitespace

\* value.startsWith(prefix)
startsWith(value, prefix) ==
  Len(value) >= Len(prefix) /\ SubSeq(value, 1, Len(prefix)) = prefix

\* /^(\+254|0)[17]\d{8}$/.test(phone.replace(/\s/g, ''))
validatePhoneNumber(phone) ==
  LET stripped == SelectSeq(phone, NotWhitespace) IN
    \/ /\ Len(stripped) = 4 + 1 + 8
       /\ SubSeq(stripped, 1, 4) = << "+", "2", "5", "4" >>
       /\ stripped[5] \in {"1", "7"}
       /\ \A k \in 6 .. 13 : IsDigit(stripped[k])
    \/ /\ Len(stripped) = 1 + 1 + 8
       /\ stripped[1] = "0"
       /\ stripped[2] \in {"1", "7"}
       /\ \A k \in 3 .. 10 : IsDigit(stripped[k])

\* /(\+\d{3})(\d{3})(\d{3})(\d{3})/ matches at position i of value.
GroupsMatchAt(value, i) ==
  /\ i + 12 <= Len(value)
  /\ value[i] = "+"
  /\ \A k \in 1 .. 12 : IsDigit(value[i + k])

\* value.replace(/(\+\d{3})(\d{3})(\d{3})(\d{3})/, '$1 $2 $3 $4'): the
\* leftmost match is replaced, the text around it is kept.
ReplaceGroups(value) ==
  LET hits == { i \in 1 .. Len(value) : GroupsMatchAt(value, i) } IN
    IF hits = {} THEN value
    ELSE LET i == CHOOSE h \in hits : \A g \in hits : h <= g IN
           SubSeq(value, 1, i - 1)
             \o SubSeq(value, i, i + 3) \o << " " >>
             \o SubSeq(value, i + 4, i + 6) \o << " " >>
             \o SubSeq(value, i + 7, i + 9) \o << " " >>
             \o SubSeq(value, i + 10, i + 12)
             \o SubSeq(value, i + 13, Len(value))

\* formatPhoneNumber(input): the value it assigns to input.value.
formatPhoneNumber(text) ==
  LET digits == SelectSeq(text, IsDigit)
      value == IF startsWith(digits, << "0" >>)
                 THEN << "+", "2", "5", "4" >> \o Tail(digits)
               ELSE IF startsWith(digits, << "7" >>) \/ startsWith(digits, << "1" >>)
                 THEN << "+", "2", "5", "4" >> \o digits
               ELSE digits
  IN IF Len(value) > 3 THEN ReplaceGroups(value) ELSE value

\* What a user may put into the field: a prefix, a leading digit and a run
\* of digits, with whitespace nowhere, in front, behind, after the prefix,
\* or in the groups `+254 7XX XXX XXX`.
Prefixes ==
  { << "+", "2", "5", "4" >>, << "0" >>, << "2", "5", "4" >>, << >>,
    << "+", "2", "5", "5" >>, << "0", "0" >> }

Leads == {"7", "1", "2"}

Bodies ==
  { [k \in 1 .. n |-> d] : n \in 7 .. MaxBodyLen, d \in {"0", "3", "7"} }
    \cup { << "1", "2", "3", "4", "5", "6", "7", "8" >> }

SpaceAfter(text, n) ==
  IF n > Len(text) THEN text
  ELSE SubSeq(text, 1, n) \o << " " >> \o SubSeq(text, n + 1, Len(text))

Spacings(prefix, text) ==
  { text,
    << " " >> \o text,
    text \o << "\t" >>,
    SpaceAfter(text, Len(prefix)),
    SpaceAfter(SpaceAfter(SpaceAfter(text, 10), 7), 4) }

PhoneInputs ==
  UNION { Spacings(prefix, prefix \o << lead >> \o body) :
            prefix \in Prefixes, lead \in Leads, body \in Bodies }

\* phoneInput's `input` listener: the field holds `text` and
\* formatPhoneNumber rewrites it.
PhoneInput(text) ==
  /\ entered' = text
  /\ phone_number' = formatPhoneNumber(text)
  /\ UNCHANGED << border_red, hint_hidden >>
  /\ UNCHANGED << admins, activity_logs, clock, callVars, ctxVars >>

\* phoneInput's `blur` listener.
PhoneBlur ==
  /\ IF phone_number # << >> /\ ~ validatePhoneNumber(phone_number)
     THEN border_red' = TRUE /\ hint_hidden' = FALSE
     ELSE border_red' = FALSE /\ hint_hidden' = TRUE
  /\ UNCHANGED << phone_number, entered >>
  /\ UNCHANGED << admins, activity_logs, clock, callVars, ctxVars >>

\* ------------------------------------------------------ the environment
\* Another writer of the database clears an account's active flag.
Deactivate(a) ==
  /\ admins[a] # Null /\ admins[a][1].is_active
  /\ admins' = [admins EXCEPT ![a] = Some([@[1] EXCEPT !.is_active = FALSE])]
  /\ UNCHANGED << activity_logs, clock, callVars, ctxVars, formVars >>

\* Another writer of the database deletes an account.
DeleteAdmin(a) ==
  /\ admins[a] # Null
  /\ admins' = [admins EXCEPT ![a] = Null]
  /\ UNCHANGED << activity_logs, clock, callVars, ctxVars, formVars >>

\* Time passes: by less than a second from a whole second, or by 8 hours.
Tick(d) ==
  /\ d = SubSecondMs => clock % MsPerSecond = 0
  /\ clock + d <= MaxClockMs
  /\ clock' = clock + d
  /\ UNCHANGED << admins, activity_logs, callVars, ctxVars, formVars >>

\* The Apollo server's login stores a session row for a token it signs for
\* admin a: valid, and expiring after `lifetime` milliseconds.
SessionToken(a, nowMs) ==
  jwt_sign([adminId |-> a, username |-> a,
            roleId |-> IF a % 2 = 1 THEN Some(a) ELSE Null], JWT_SECRET, nowMs)

CreateSession(a, lifetime) ==
  /\ Cardinality(admin_sessions) < MaxSessions
  /\ \A s \in admin_sessions : s.session_token # SessionToken(a, clock)
  /\ admin_sessions' = admin_sessions \cup
       { [session_token |-> SessionToken(a, clock), is_valid |-> TRUE,
          expires_at |-> clock + lifetime] }
  /\ UNCHANGED << admins, activity_logs, clock, callVars, authorization, cpc,
                  adminId, roleId, ctx, cthrew, formVars >>

\* A logout or an administrator marks a session row invalid.
RevokeSession(s) ==
  /\ s \in admin_sessions /\ s.is_valid
  /\ admin_sessions' = (admin_sessions \ {s}) \cup { [s EXCEPT !.is_valid = FALSE] }
  /\ UNCHANGED << admins, activity_logs, clock, callVars, authorization, cpc,
                  adminId, roleId, ctx, cthrew, formVars >>

\* ------------------------------------------------------ specifications
LoginStep ==
  \/ \E p \in Calls, u \in Usernames, w \in Passwords : LoginCall(p, u, w)
  \/ \E p \in Calls, ok \in BOOLEAN : LoginSelect(p, ok)
  \/ \E p \in Calls, ok \in BOOLEAN : LoginCompare(p, ok)
  \/ \E p \in Calls, ok \in BOOLEAN : LoginUpdate(p, ok)
  \/ \E p \in Calls, ok \in BOOLEAN : LoginInsert(p, ok)

\* Logins by clients that type their own username and password.
OwnLoginStep ==
  \/ \E p \in Calls, a \in AdminIds : LoginCall(p, a, PasswordOf(a))
  \/ \E p \in Calls, ok \in BOOLEAN : LoginSelect(p, ok)
  \/ \E p \in Calls, ok \in BOOLEAN : LoginCompare(p, ok)
  \/ \E p \in Calls, ok \in BOOLEAN : LoginUpdate(p, ok)
  \/ \E p \in Calls, ok \in BOOLEAN : LoginInsert(p, ok)

ValidateStep ==
  \/ \E p \in Calls, t \in PresentableTokens : ValidateCall(p, t)
  \/ \E p \in Calls, ok \in BOOLEAN : ValidateSelect(p, ok)

GetAdminStep ==
  \/ \E p \in Calls, u \in Usernames : GetAdminCall(p, u)
  \/ \E p \in Calls, ok \in BOOLEAN : GetAdminSelect(p, ok)

DeactivateStep == \E a \in AdminIds : Deactivate(a)

DeleteStep == \E a \in AdminIds : DeleteAdmin(a)

TickStep == \E d \in {SubSecondMs, EXPIRES_AT_OFFSET_MS} : Tick(d)

ExpiryTickStep == Tick(EXPIRES_AT_OFFSET_MS)

\* The headers a client can send: none, `Bearer ` and nothing, and, with or
\* without `Bearer `, a token of a session row, a forged one, or no JWT.
ContextHeaders ==
  LET toks == { s.session_token : s \in admin_sessions } \cup ForgedTokens
                \cup { MalformedToken }
  IN { Null, Some(EmptyBearerHeader) }
       \cup { Some(BearerHeader(t)) : t \in toks }
       \cup { Some(BareHeader(t)) : t \in toks }

ContextStep ==
  \/ \E h \in ContextHeaders : ContextCall(h)
  \/ \E ok \in BOOLEAN : ContextSelect(ok)

SessionRowStep ==
  \/ \E a \in AdminIds, l \in {SubSecondMs, EXPIRES_AT_OFFSET_MS} : CreateSession(a, l)
  \/ \E s \in admin_sessions : RevokeSession(s)

\* The three resolvers, the other writers of the database and the clock.
Next ==
  \/ LoginStep
  \/ ValidateStep
  \/ GetAdminStep
  \/ DeactivateStep
  \/ DeleteStep
  \/ TickStep

Spec == Init /\ [][Next]_vars

\* adminLogin alone, against a writer that deactivates accounts and the
\* clock.
NextLogin ==
  \/ LoginStep
  \/ DeactivateStep
  \/ ExpiryTickStep

SpecLogin == Init /\ [][NextLogin]_vars

\* Logins that hand out tokens, and adminValidateSession on what clients hold.
NextSession ==
  \/ OwnLoginStep
  \/ ValidateStep
  \/ DeactivateStep
  \/ DeleteStep
  \/ ExpiryTickStep

SpecSession == Init /\ [][NextSession]_vars

\* The three resolvers with every failure they catch, on a quiet database.
NextResolvers ==
  \/ LoginStep
  \/ ValidateStep
  \/ GetAdminStep

SpecResolvers == Init /\ [][NextResolvers]_vars

\* A continuation of call p runs: the awaited operation has settled.
Settle(p) ==
  \E ok \in BOOLEAN :
    \/ LoginSelect(p, ok) \/ LoginCompare(p, ok) \/ LoginUpdate(p, ok)
    \/ LoginInsert(p, ok) \/ ValidateSelect(p, ok) \/ GetAdminSelect(p, ok)

\* Every awaited operation settles, and the event loop then runs the
\* continuation.
SpecResolversFair == SpecResolvers /\ \A p \in Calls : WF_vars(Settle(p))

\* The Apollo server's context function, against the writers of
\* admin_sessions and the clock.
NextContext ==
  \/ ContextStep
  \/ SessionRowStep
  \/ TickStep

SpecContext == Init /\ [][NextContext]_vars

\* Logins and session validations while the clock advances by parts of a
\* second as well as by hours, between any two steps of a call.
NextExpiry ==
  \/ OwnLoginStep
  \/ ValidateStep
  \/ TickStep

SpecExpiry == Init /\ [][NextExpiry]_vars

\* The payment form's phone field: the user replaces its content, or edits
\* it so that `input` fires on what the field holds, or leaves the field.
PhoneStep ==
  \/ \E text \in PhoneInputs \cup {phone_number} : PhoneInput(text)
  \/ PhoneBlur

NextPhone == PhoneStep

SpecPhone == Init /\ [][NextPhone]_vars

\* ------------------------------------------------------------------ claims
LoginReturned(p) == op[p] = "adminLogin" /\ pc[p] = "done"

\* The fields every failed login carries.
IsFailure(r) ==
  ~ r.success /\ r.admin = Null /\ r.session = Null /\ ~ r.requires2FA

\* The password typed in call p is the one of the account the call found.
TypedOwnPassword(p) == args[p].password = PasswordOf(admin[p][1].id)

\* C1: a login that finds an active account with two-factor off, is given
\* that account's password and in which nothing throws returns success, no
\* 2FA request and a session whose token carries the account's id, username
\* and role id, is signed with the server secret and expires 8 hours after
\* it was issued.
C1_ValidLoginIssuesToken ==
  \A p \in Calls :
    ( /\ LoginReturned(p) /\ ~ threw[p] /\ admin[p] # Null
      /\ admin[p][1].is_active /\ ~ admin[p][1].two_factor_enabled
      /\ TypedOwnPassword(p) )
    => LET r == resp[p][1] IN
         /\ r.success /\ ~ r.requires2FA /\ r.session # Null
         /\ LET t == r.session[1].token IN
              /\ t.wellFormed /\ t.sig = JWT_SECRET
              /\ t.adminId = admin[p][1].id
              /\ t.adminId = args[p].username
              /\ t.username = args[p].username
              /\ t.roleId = admin[p][1].role_id
              /\ t.exp = t.iat + 28800
              /\ t.iat * 1000 <= clock

C1_Witness ==
  \E p \in Calls :
    /\ LoginReturned(p) /\ ~ threw[p] /\ admin[p] # Null /\ TypedOwnPassword(p)
    /\ resp[p][1].session # Null
    /\ resp[p][1].session[1].token.iat > 0

\* C2: a login that finds an active account and is given a password other
\* than that account's never signs a token and issues no statement but its
\* SELECT; what it returns is a failure with no admin and no session.
C2_WrongPasswordRejected ==
  \A p \in Calls :
    ( /\ op[p] = "adminLogin" /\ admin[p] # Null /\ admin[p][1].is_active
      /\ ~ TypedOwnPassword(p) )
    => /\ token[p] = Null
       /\ queries[p] = << "SELECT" >>
       /\ pc[p] \in {"compare", "done"}
       /\ pc[p] = "done" => IsFailure(resp[p][1])

C2_Witness ==
  \E p \in Calls :
    /\ LoginReturned(p) /\ admin[p] # Null /\ admin[p][1].is_active
    /\ ~ TypedOwnPassword(p) /\ ~ threw[p]
    /\ resp[p][1] = InvalidCredentials

\* C3: a login that finds an account whose active flag is off returns the
\* inactive-account failure, with any password and either two-factor
\* setting, and has issued no statement but its SELECT.
C3_InactiveRejected ==
  \A p \in Calls :
    (op[p] = "adminLogin" /\ admin[p] # Null /\ ~ admin[p][1].is_active)
    => /\ pc[p] = "done"
       /\ IsFailure(resp[p][1])
       /\ resp[p][1].message = "Account is inactive. Contact administrator."
       /\ token[p] = Null
       /\ queries[p] = << "SELECT" >>

C3_Witness ==
  \E p \in Calls :
    /\ LoginReturned(p) /\ admin[p] # Null /\ ~ admin[p][1].is_active
    /\ admin[p][1].two_factor_enabled /\ TypedOwnPassword(p)

\* C4: when the SELECT of a login settles and no row has the username, the
\* call returns at once a failure with no admin and no session, and the step
\* changes no admins row and no activity_logs row.
NoRowHas(username) ==
  \A a \in AdminIds : admins[a] = Null \/ admins[a][1].username # username

C4_UnknownUsernameStep ==
  \A p \in Calls :
    ( /\ op[p] = "adminLogin" /\ pc[p] = "select" /\ pc'[p] # "select"
      /\ NoRowHas(args[p].username) )
    => /\ pc'[p] = "done"
       /\ IsFailure(resp'[p][1])
       /\ queries'[p] = << "SELECT" >>
       /\ admins' = admins
       /\ activity_logs' = activity_logs

C4_UnknownUsername == [][C4_UnknownUsernameStep]_vars

C4_Witness ==
  \E p \in Calls :
    /\ LoginReturned(p) /\ NoRowHas(args[p].username) /\ ~ threw[p]
    /\ resp[p][1] = InvalidCredentials
    /\ \E a \in AdminIds : admins[a][1].last_login # Null

\* C5: adminValidateSession gets past jwt.verify only with a token that
\* parses, is signed with the server secret and whose expiry (issue time +
\* 8 hours) is later than the clock; it answers isValid=true only from
\* there, and only if the admin the token names exists and is active when
\* the SELECT runs; every other answer is isValid=false with admin=null and
\* expiresAt=null.
ValidateReturned(p) == op[p] = "adminValidateSession" /\ pc[p] = "done"

C5_VerifyStep ==
  \A p \in Calls :
    (op'[p] = "adminValidateSession" /\ pc[p] # "select" /\ pc'[p] = "select")
    => LET t == args'[p].sessionToken IN
         /\ t.wellFormed /\ t.sig = JWT_SECRET
         /\ t.exp = t.iat + 28800
         /\ clock \div 1000 < t.exp

C5_SelectStep ==
  \A p \in Calls :
    ( /\ op[p] = "adminValidateSession" /\ pc[p] = "select" /\ pc'[p] = "done"
      /\ resp'[p][1].isValid )
    => LET t == args[p].sessionToken IN
         /\ admins[t.adminId] # Null
         /\ admins[t.adminId][1].is_active
         /\ resp'[p][1].admin # Null
         /\ resp'[p][1].admin[1].id = toString(t.adminId)
         /\ resp'[p][1].expiresAt = Some(ToISOString(t.exp * 1000))

C5_Answers ==
  \A p \in Calls :
    ValidateReturned(p)
    => IF resp[p][1].isValid
       THEN queries[p] = << "SELECT" >> /\ ~ threw[p]
       ELSE resp[p][1].admin = Null /\ resp[p][1].expiresAt = Null

C5_ValidOnlyIfLive ==
  /\ [] C5_Answers
  /\ [][C5_VerifyStep /\ C5_SelectStep]_vars

C5_Witness ==
  \E p \in Calls :
    /\ ValidateReturned(p) /\ resp[p][1].isValid
    /\ args[p].sessionToken.iat > 0

\* C6 as stated: no login that finds an account with two-factor on signs or
\* returns a token, and with the account's password it returns success,
\* requires2FA and no session, having issued no statement but its SELECT.
FoundTwoFactor(p) ==
  op[p] = "adminLogin" /\ admin[p] # Null /\ admin[p][1].two_factor_enabled

C6_TwoFactorAsStated ==
  \A p \in Calls :
    FoundTwoFactor(p)
    => /\ token[p] = Null
       /\ queries[p] = << "SELECT" >>
       /\ (pc[p] = "done" /\ TypedOwnPassword(p) /\ ~ threw[p])
          => /\ resp[p][1].success /\ resp[p][1].requires2FA
             /\ resp[p][1].session = Null

\* C6 amended: no login that finds an account with two-factor on signs or
\* returns a token or issues a statement after its SELECT; if the account
\* is active and the password is the account's, it returns success,
\* requires2FA and no session.
C6_TwoFactorNoToken ==
  \A p \in Calls :
    FoundTwoFactor(p)
    => /\ token[p] = Null
       /\ queries[p] = << "SELECT" >>
       /\ pc[p] = "done" => resp[p][1].session = Null
       /\ (pc[p] = "done" /\ admin[p][1].is_active /\ TypedOwnPassword(p)
           /\ ~ threw[p])
          => /\ resp[p][1].success /\ resp[p][1].requires2FA
             /\ resp[p][1].admin # Null
             /\ resp[p][1].admin[1].id = toString(admin[p][1].id)

C6_Witness ==
  \E p \in Calls :
    /\ FoundTwoFactor(p) /\ pc[p] = "done" /\ admin[p][1].is_active
    /\ TypedOwnPassword(p) /\ ~ threw[p] /\ resp[p][1].requires2FA

\* C7: a login returns a session only after it has sent its UPDATE and then
\* its INSERT, each once; the account then has a last_login, and for every
\* admin the LOGIN/ADMIN rows of activity_logs are at least as many as the
\* sessions returned for that admin.
SessionsReturnedFor(a) ==
  LET mine == { t \in BagToSet(issued) : t.adminId = a }
  IN BagCardinality([t \in mine |-> CopiesIn(t, issued)])

FirstFailingCheck(p) ==
  IF NoRowHas(args[p].username) THEN "Invalid username or password"
  ELSE IF ~ admin[p][1].is_active THEN "Account is inactive. Contact administrator."
  ELSE IF ~ TypedOwnPassword(p) THEN "Invalid username or password"
  ELSE IF admin[p][1].two_factor_enabled THEN "2FA code required"
  ELSE "Login successful"

C9_FixedOrder ==
  \A p \in Calls :
    (LoginReturned(p) /\ ~ threw[p])
    => /\ resp[p][1].message = FirstFailingCheck(p)
       /\ resp[p][1].requires2FA => (admin[p][1].is_active /\ TypedOwnPassword(p))
       /\ resp[p][1].success = (resp[p][1].message \in
                                  {"2FA code required", "Login successful"})

C9_Witness ==
  \E p \in Calls :
    /\ LoginReturned(p) /\ ~ threw[p] /\ admin[p] # Null
    /\ ~ admin[p][1].is_active /\ ~ TypedOwnPassword(p)
    /\ admin[p][1].two_factor_enabled
    /\ resp[p][1] = AccountInactive

\* C8: a call whose catch block has run has returned its resolver's failure
\* value (the login failure object, {isValid: false, admin: null,
\* expiresAt: null}, or null); no call sends a statement twice; and every
\* call that is suspended returns.
FailureValue(p) ==
  IF op[p] = "adminLogin" THEN IsFailure(resp[p][1])
  ELSE IF op[p] = "adminValidateSession"
    THEN resp[p][1] = [isValid |-> FALSE, admin |-> Null, expiresAt |-> Null]
  ELSE resp[p][1].value = Null

Suspended(p) == pc[p] \in {"select", "compare", "update", "insert"}

C8_Caught ==
  \A p \in Calls :
    /\ threw[p] => pc[p] = "done" /\ resp[p] # Null /\ FailureValue(p)
    /\ pc[p] = "done" => resp[p] # Null
    /\ \A i, j \in 1 .. Len(queries[p]) : i # j => queries[p][i] # queries[p][j]

C8_NoFailureEscapes ==
  /\ [] C8_Caught
  /\ \A p \in Calls : Suspended(p) ~> pc[p] = "done"

C8_Witness ==
  \E p \in Calls :
    /\ LoginReturned(p) /\ threw[p]
    /\ queries[p] = << "SELECT", "UPDATE", "INSERT" >>

\* C10: the context function gets past jwt.verify only with a token that is
\* signed with the JWT secret and not expired; it returns a non-null adminId
\* or roleId only from there, only when admin_sessions holds a row for that
\* very token that is valid and expires after the clock, and then they are
\* the token's; with no token or after a throw both are null, and roleId is
\* never set without adminId.
C10_VerifyStep ==
  (cpc # "select" /\ cpc' = "select")
  => /\ HeaderToken(authorization') # Null
     /\ LET t == HeaderToken(authorization')[1] IN
          t.wellFormed /\ t.sig = JWT_SECRET /\ clock \div 1000 < t.exp

C10_SelectStep ==
  (cpc = "select" /\ cpc' = "done" /\ (ctx'[1].adminId # Null \/ ctx'[1].roleId # Null))
  => LET t == HeaderToken(authorization)[1] IN
       /\ \E s \in admin_sessions :
            s.session_token = t /\ s.is_valid /\ s.expires_at > clock
       /\ ctx'[1].adminId = Some(t.adminId)
       /\ ctx'[1].roleId = t.roleId

C10_Returned ==
  cpc = "done"
  => /\ ctx # Null
     /\ (HeaderToken(authorization) = Null \/ cthrew)
        => (ctx[1].adminId = Null /\ ctx[1].roleId = Null)
     /\ ctx[1].roleId # Null => ctx[1].adminId # Null

\* A context returned without the session query carries neither id.
C10_DirectReturnStep ==
  ( /\ cpc # "select" /\ cpc' = "done"
    /\ (ctx' # ctx \/ authorization' # authorization) )
  => (ctx'[1].adminId = Null /\ ctx'[1].roleId = Null)

C10_ContextNeedsLiveSession ==
  /\ [] C10_Returned
  /\ [][C10_VerifyStep /\ C10_SelectStep /\ C10_DirectReturnStep]_vars

C10_Witness ==
  /\ cpc = "done" /\ ~ cthrew /\ HeaderToken(authorization) # Null
  /\ ctx[1].adminId = Null /\ ctx[1].roleId = Null
  /\ \E s \in admin_sessions :
       /\ s.session_token = HeaderToken(authorization)[1]
       /\ ~ s.is_valid /\ s.expires_at > clock

\* C11: every login that finds no row of the username and every login that
\* finds an active account and is given a password other than that
\* account's, nothing throwing in either, returns one and the same response,
\* field for field: success=false, 'Invalid username or password', no
\* admin, no session, requires2FA=false.
UnknownUsernameAnswered(p) ==
  LoginReturned(p) /\ ~ threw[p] /\ admin[p] = Null

WrongPasswordAnswered(p) ==
  /\ LoginReturned(p) /\ ~ threw[p] /\ admin[p] # Null
  /\ admin[p][1].is_active /\ ~ TypedOwnPassword(p)

C11_Fields == {"success", "message", "admin", "session", "requires2FA"}

C11_UnknownLikeWrongPassword ==
  /\ \A p, q \in Calls :
       (UnknownUsernameAnswered(p) /\ WrongPasswordAnswered(q))
       => resp[p] = resp[q]
  /\ \A p \in Calls :
       (UnknownUsernameAnswered(p) \/ WrongPasswordAnswered(p))
       => LET r == resp[p][1] IN
            /\ DOMAIN r = C11_Fields
            /\ r.success = FALSE
            /\ r.message = "Invalid username or password"
            /\ r.admin = Null /\ r.session = Null
            /\ r.requires2FA = FALSE

C11_Witness ==
  \E p \in Calls :
    /\ WrongPasswordAnswered(p)
    /\ requests = MaxRequests
    /\ admin[p][1].two_factor_enabled

\* C12: a login that has returned success=false has changed neither the
\* admins table (last_login) nor activity_logs: both are as they were when
\* the call was received, whichever statement failed.
C12_FailedLoginNoEffect ==
  \A p \in Calls :
    (LoginReturned(p) /\ ~ resp[p][1].success) => effects[p] = {}

\* C13: whatever a concurrent deactivation of the same account does, the
\* step in which a login returns a session token finds that account active:
\* no token is returned for an account that is inactive when the response is
\* produced.
C13_ActiveAtResponseStep ==
  \A p \in Calls :
    ( /\ op[p] = "adminLogin" /\ pc[p] # "done" /\ pc'[p] = "done"
      /\ resp'[p][1].session # Null )
    => /\ admins'[admin[p][1].id] # Null
       /\ admins'[admin[p][1].id][1].is_active

C13_NoTokenForInactive == [][C13_ActiveAtResponseStep]_vars

\* C14: the session.expiresAt a login returns is the instant at which the
\* token it returns expires (the token's exp, in seconds, as milliseconds),
\* which is the expiresAt adminValidateSession reports for that token,
\* however the clock advances between the signing and the response.
C14_ExpiresAtIsTokenExpiry ==
  /\ \A p \in Calls :
       (LoginReturned(p) /\ resp[p][1].session # Null)
       => resp[p][1].session[1].expiresAt
            = ToISOString(resp[p][1].session[1].token.exp * 1000)
  /\ \A p, q \in Calls :
       ( /\ LoginReturned(p) /\ resp[p][1].session # Null
         /\ ValidateReturned(q) /\ resp[q][1].isValid
         /\ args[q].sessionToken = resp[p][1].session[1].token )
       => resp[q][1].expiresAt = Some(resp[p][1].session[1].expiresAt)

\* C15: whenever the text on which formatPhoneNumber ran is one that
\* validatePhoneNumber accepts, the value formatPhoneNumber wrote into the
\* field is accepted by validatePhoneNumber too, and formatPhoneNumber
\* applied to that value gives the same value.
C15_FormatKeepsValid ==
  validatePhoneNumber(entered)
  => /\ validatePhoneNumber(phone_number)
     /\ formatPhoneNumber(phone_number) = phone_number
====
